---- MODULE Spec2Model ----
(***************************************************************************)
(* Model of score.py: the Corn Hole scoring engine (class Game).           *)
(*                                                                         *)
(* Time is counted in ticks of a quarter of a second, the largest unit in  *)
(* which all four timing constants of the Game are whole numbers.  The     *)
(* three timestamps of the Game are kept as ages (time.time() minus the    *)
(* timestamp), saturated at the largest value any comparison looks at.     *)
(***************************************************************************)
EXTENDS Integers, Sequences, FiniteSets, TLC

VARIABLES
    state,          \* Game.state (GameState)
    game,           \* the score fields of the Game, and the age of time_of_turn_start
    sensors,        \* Game.sensors: sequence of Sensor records (with latest_reading)
    minimum_sensor_weight, \* Game.minimum_sensor_weight
    button_age,     \* time.time() - Game.time_of_last_button_read
    sensor_age,     \* time.time() - Game.time_of_last_sensor_read
    event,          \* local `event` of Game.play
    pc,             \* position in the loop of Game.play
    polled,         \* what the callbacks would answer / did answer in the last get_event
    trace,          \* which of end_turn / new_game / log the last handler performed
    tally_call      \* arguments and result of the last direct tally_location call

vars == <<state, game, sensors, minimum_sensor_weight, button_age, sensor_age,
          event, pc, polled, trace, tally_call>>

----------------------------------------------------------------------------
(* Bounds of the model *)

MaxTurnNumber == 3      \* end_turn is not taken beyond this turn number
MaxBusyTurn == 18       \* a turn (or a stay in GameOver) older than this many
                        \* ticks and younger than the timeout is only slept on
                        \* for long
MaxReadLen == 2         \* longest reading drawn for a sensor in SpecTally
MaxDrawnScore == 3      \* largest game or turn score drawn in SpecEndTurn

(* Program constants, in ticks (TicksPerSecond ticks to the second) *)

TicksPerSecond == 4
WinningScore == 21
DebounceSeconds == 4
TimeoutSeconds == 45
Debounce == DebounceSeconds * TicksPerSecond
timeout_in_seconds == TimeoutSeconds * TicksPerSecond
DefaultMinimumSensorWeight == 1
rfid_polling_interval_in_seconds == (5 * TicksPerSecond) \div 2
button_polling_interval_in_seconds == TicksPerSecond \div 4

(* The value of e, computed once: Only({e}).  Binding a value as the       *)
(* element of a singleton keeps it from being computed again at each use.  *)
Only(S) == CHOOSE x \in S : TRUE

Min2(a, b) == IF a <= b THEN a ELSE b
Max2(a, b) == IF a >= b THEN a ELSE b
Abs(x) == IF x >= 0 THEN x ELSE 0 - x

poll_interval_in_seconds ==
    Min2(rfid_polling_interval_in_seconds,
         Min2(button_polling_interval_in_seconds, timeout_in_seconds))

(* Time that can pass between two get_event calls: the sleep of            *)
(* poll_interval plus whatever the callbacks and the handler took.         *)
ShortSleep == rfid_polling_interval_in_seconds - poll_interval_in_seconds
LongSleep == timeout_in_seconds
Elapsed == {ShortSleep, LongSleep}
(* Time between the construction of the Game and the first get_event. *)
StartDelay == {0} \cup Elapsed

----------------------------------------------------------------------------
(* Enumerations *)

Team == {"A", "B"}
GameEvent == {"TAGS_CHANGED_ON_BOARD_1", "TAGS_CHANGED_ON_BOARD_2", "NO_CHANGE",
              "BUTTON_PRESSED", "TIMEOUT", "QUIT"}
GameState == {"START", "PLAYING_BOARD_1", "PLAYING_BOARD_2", "TURN_OVER",
              "BOARD_CLEAR", "GAME_OVER"}
Location == {"UNKNOWN", "BOARD_1", "HOLE_1", "BOARD_2", "HOLE_2"}

Tag(rfid, team) == [rfid |-> rfid, team |-> team]

Sensor(sensor_id, weight, location, points) ==
    [id |-> sensor_id, weight |-> weight, location |-> location,
     points_to_award |-> points, latest_reading |-> <<>>]

(* The roster of TestGame. *)
tags == << Tag("A1", "A"), Tag("A2", "A"), Tag("A3", "A"), Tag("A4", "A"),
           Tag("B1", "B"), Tag("B2", "B"), Tag("B3", "B"), Tag("B4", "B") >>

RosterIds == {tags[i].rfid : i \in 1..Len(tags)}

----------------------------------------------------------------------------
(* Filtering sensors and tags *)

get_sensors_for_location(ss, location) ==
    SelectSeq(ss, LAMBDA sensor : sensor.location = location)

get_tags_for_team(team) == SelectSeq(tags, LAMBDA tag : tag.team = team)

NoTag == [rfid |-> "None", team |-> "UNKNOWN"]

get_tag_by_id(rfid) ==
    LET found == SelectSeq(tags, LAMBDA tag : tag.rfid = rfid)
    IN  IF found = <<>> THEN NoTag ELSE found[1]

----------------------------------------------------------------------------
(* The tally engine *)

(* The (sensor, rfid) pairs in the order the two nested loops of           *)
(* tally_location visit them.                                              *)
SensorReads(sensor) ==
    [i \in 1..Len(sensor.latest_reading) |->
        [rfid |-> sensor.latest_reading[i], weight |-> sensor.weight,
         points |-> sensor.points_to_award]]

RECURSIVE ReadsOf(_)
ReadsOf(ss) ==
    IF ss = <<>> THEN <<>> ELSE SensorReads(Head(ss)) \o ReadsOf(Tail(ss))

(* Tags are hashed and compared by rfid: the dictionaries and the set of   *)
(* tally_location are keyed by rfid here.  The loop is rendered by the     *)
(* value each dictionary entry has after the k-th read.                    *)

(* The reads, among the first k, that the loop body accepts for this tag.  *)
ReadsOfTag(reads, rfid, k) ==
    {i \in 1..k : get_tag_by_id(reads[i].rfid) # NoTag
                  /\ get_tag_by_id(reads[i].rfid).rfid = rfid}

RECURSIVE SumScores(_, _)
SumScores(S, f) ==
    IF S = {} THEN 0
    ELSE LET x == CHOOSE y \in S : TRUE IN f[x] + SumScores(S \ {x}, f)

RECURSIVE MaxScore(_, _)
MaxScore(S, f) ==
    IF S = {} THEN 0
    ELSE LET x == CHOOSE y \in S : TRUE IN Max2(MaxScore(S \ {x}, f), f[x])

(* hits_per_tag[tag] after the k-th read *)
hits_per_tag(reads, rfid, k) ==
    SumScores(ReadsOfTag(reads, rfid, k), [i \in 1..Len(reads) |-> reads[i].weight])

(* max_score_per_tag[tag] after the last read *)
max_score_per_tag(reads, rfid) ==
    MaxScore(ReadsOfTag(reads, rfid, Len(reads)),
             [i \in 1..Len(reads) |-> reads[i].points])

(* A tag is added to verified_tags at a read of it that finds its hits at  *)
(* the threshold.                                                          *)
verified_tags(reads, tags_for_team, min_weight) ==
    {rfid \in tags_for_team :
        \E k \in ReadsOfTag(reads, rfid, Len(reads)) :
            hits_per_tag(reads, rfid, k) >= min_weight}

tally_location(ss, min_weight, team, location) ==
    LET team_tags == get_tags_for_team(team)
        tags_for_team == {team_tags[i].rfid : i \in 1..Len(team_tags)}
    IN  Only({ SumScores(verified_tags(reads, tags_for_team, min_weight),
                         [rfid \in tags_for_team |-> max_score_per_tag(reads, rfid)]) :
               reads \in {ReadsOf(get_sensors_for_location(ss, location))} })

tally_turn_board_1(ss, mw, team) ==
    tally_location(ss, mw, team, "BOARD_1") + tally_location(ss, mw, team, "HOLE_1")

tally_turn_board_2(ss, mw, team) ==
    tally_location(ss, mw, team, "BOARD_2") + tally_location(ss, mw, team, "HOLE_2")

are_boards_clear(ss, mw) ==
    0 = tally_turn_board_1(ss, mw, "A") + tally_turn_board_1(ss, mw, "B")

----------------------------------------------------------------------------
(* Score bookkeeping; g is the record of the Game's score fields *)

new_game ==
    [team_a_game_score |-> 0, team_b_game_score |-> 0,
     team_a_turn_score |-> 0, team_b_turn_score |-> 0,
     last_board_played |-> 0, turn_number |-> 1,
     turn_duration |-> 0]

(* end_turn crediting the winner's whole turn score instead of the margin *)
end_turn_whole_score(g) ==
    LET score_diff == g.team_a_turn_score - g.team_b_turn_score
        credited ==
            IF score_diff > 0
            THEN [g EXCEPT !.team_a_game_score = @ + g.team_a_turn_score]
            ELSE [g EXCEPT !.team_b_game_score = @ + g.team_b_turn_score]
    IN  [credited EXCEPT !.team_a_turn_score = 0,
                         !.team_b_turn_score = 0,
                         !.turn_number = @ + 1,
                         !.turn_duration = 0]

(* end_turn crediting the game score without zeroing the turn scores *)
end_turn_keeps_turn_scores(g) ==
    LET score_diff == g.team_a_turn_score - g.team_b_turn_score
        credited ==
            IF score_diff > 0
            THEN [g EXCEPT !.team_a_game_score = @ + score_diff]
            ELSE [g EXCEPT !.team_b_game_score = @ + Abs(score_diff)]
    IN  [credited EXCEPT !.turn_number = @ + 1,
                         !.turn_duration = 0]

(* end_turn adding the signed difference, without abs, when team A does    *)
(* not lead                                                                *)
end_turn_signed(g) ==
    LET score_diff == g.team_a_turn_score - g.team_b_turn_score
    IN  [g EXCEPT
            !.team_a_game_score = IF score_diff > 0 THEN @ + score_diff ELSE @,
            !.team_b_game_score = IF score_diff > 0 THEN @ ELSE @ + score_diff,
            !.team_a_turn_score = 0,
            !.team_b_turn_score = 0,
            !.turn_number = @ + 1,
            !.turn_duration = 0]

end_turn(g) ==
    LET score_diff == g.team_a_turn_score - g.team_b_turn_score
        credited ==
            IF score_diff > 0
            THEN [g EXCEPT !.team_a_game_score = @ + score_diff]
            ELSE [g EXCEPT !.team_b_game_score = @ + Abs(score_diff)]
    IN  [credited EXCEPT !.team_a_turn_score = 0,
                         !.team_b_turn_score = 0,
                         !.turn_number = @ + 1,
                         !.turn_duration = 0]

(* update_turn_score that also banks the lead of the tallies in the game   *)
(* score at once                                                           *)
update_turn_score_banks(g, ss, mw, board_number) ==
    LET a == IF board_number = 1 THEN tally_turn_board_1(ss, mw, "A")
             ELSE tally_turn_board_2(ss, mw, "A")
        b == IF board_number = 1 THEN tally_turn_board_1(ss, mw, "B")
             ELSE tally_turn_board_2(ss, mw, "B")
    IN  [g EXCEPT !.team_a_game_score = @ + Max2(0, a - b),
                  !.team_b_game_score = @ + Max2(0, b - a),
                  !.team_a_turn_score = a,
                  !.team_b_turn_score = b,
                  !.last_board_played = board_number]

(* update_turn_score that never lowers a turn score: it keeps the larger   *)
(* of the stored turn score and the tally                                  *)
update_turn_score_keeps_best(g, ss, mw, board_number) ==
    IF board_number = 1
    THEN [g EXCEPT !.team_a_turn_score = Max2(@, tally_turn_board_1(ss, mw, "A")),
                   !.team_b_turn_score = Max2(@, tally_turn_board_1(ss, mw, "B")),
                   !.last_board_played = 1]
    ELSE [g EXCEPT !.team_a_turn_score = Max2(@, tally_turn_board_2(ss, mw, "A")),
                   !.team_b_turn_score = Max2(@, tally_turn_board_2(ss, mw, "B")),
                   !.last_board_played = 2]

update_turn_score(g, ss, mw, board_number) ==
    IF board_number = 1
    THEN [g EXCEPT !.team_a_turn_score = tally_turn_board_1(ss, mw, "A"),
                   !.team_b_turn_score = tally_turn_board_1(ss, mw, "B"),
                   !.last_board_played = 1]
    ELSE [g EXCEPT !.team_a_turn_score = tally_turn_board_2(ss, mw, "A"),
                   !.team_b_turn_score = tally_turn_board_2(ss, mw, "B"),
                   !.last_board_played = 2]

total_score(g, team) ==
    IF team = "A"
    THEN g.team_a_game_score + Max2(0, g.team_a_turn_score - g.team_b_turn_score)
    ELSE g.team_b_game_score + Max2(0, g.team_b_turn_score - g.team_a_turn_score)

(* have_reached_winning_score looking at team A alone *)
have_reached_winning_score_team_a(g) ==
    total_score(g, "A") >= WinningScore

have_reached_winning_score(g) ==
    total_score(g, "A") >= WinningScore \/ total_score(g, "B") >= WinningScore

----------------------------------------------------------------------------
(* The installation: one sensor on the top and one in the hole of each      *)
(* board, 1 point on the board and 3 in the hole.                          *)

GameSensors ==
    << Sensor("TOP_1", 1, "BOARD_1", 1), Sensor("HOLE_1", 1, "HOLE_1", 3),
       Sensor("TOP_2", 1, "BOARD_2", 1), Sensor("HOLE_2", 1, "HOLE_2", 3) >>

AllA == <<"A1", "A2", "A3", "A4">>
AllB == <<"B1", "B2", "B3", "B4">>

(* What the four read_tags callbacks can answer in one read_sensors call.  *)
Scenes ==
    { << <<>>, <<>>, <<>>, <<>> >>,                         \* nothing anywhere
      << <<"A2", "A3", "B1", "B2">>, <<"A1">>, <<>>, <<>> >>, \* board 1: A 5, B 2
      << <<>>, AllB, <<>>, <<>> >>,                         \* board 1: B 12
      << <<>>, <<>>, <<"A1", "B1">>, <<>> >>,               \* board 2: A 1, B 1
      << <<>>, <<>>, <<>>, AllA >>,                         \* board 2: A 12
      << <<"B1">>, <<>>, <<>>, AllA >> }                    \* board 1: B 1; board 2: A 12

(* What the button callback can answer: board 1, board 2, quit signal. *)
ButtonStates ==
    { <<FALSE, FALSE, FALSE>>, <<TRUE, FALSE, FALSE>>, <<FALSE, TRUE, FALSE>>,
      <<FALSE, FALSE, TRUE>>, <<TRUE, FALSE, TRUE>> }

----------------------------------------------------------------------------
(* The event reader *)

read_sensors(ss, scene) ==
    [i \in 1..Len(ss) |-> [ss[i] EXCEPT !.latest_reading = scene[i]]]

(* The four board tallies get_event takes after read_sensors. *)
board_tallies(ss, mw) ==
    [a1 |-> tally_turn_board_1(ss, mw, "A"), b1 |-> tally_turn_board_1(ss, mw, "B"),
     a2 |-> tally_turn_board_2(ss, mw, "A"), b2 |-> tally_turn_board_2(ss, mw, "B")]

(* the sensor branch of get_event reporting a drop of the turn score to    *)
(* zero on board 1 whatever board was played last                          *)
tag_event_of_drop_on_board_1(g, t) ==
    IF t.a1 + t.b1 > 0
    THEN IF t.a1 # g.team_a_turn_score \/ t.b1 # g.team_b_turn_score
         THEN [event |-> "TAGS_CHANGED_ON_BOARD_1", last_board_played |-> 1]
         ELSE [event |-> "none", last_board_played |-> g.last_board_played]
    ELSE IF t.a2 + t.b2 > 0
    THEN IF t.a2 # g.team_a_turn_score \/ t.b2 # g.team_b_turn_score
         THEN [event |-> "TAGS_CHANGED_ON_BOARD_2", last_board_played |-> 2]
         ELSE [event |-> "none", last_board_played |-> g.last_board_played]
    ELSE IF g.team_a_turn_score + g.team_b_turn_score > 0
    THEN [event |-> "TAGS_CHANGED_ON_BOARD_1",
          last_board_played |-> g.last_board_played]
    ELSE [event |-> "none", last_board_played |-> g.last_board_played]

(* The sensor branch of get_event on the tallies t: the tag event, or      *)
(* "none" when the branch falls through to the timeout check.              *)
tag_event_of(g, t) ==
    IF t.a1 + t.b1 > 0
    THEN IF t.a1 # g.team_a_turn_score \/ t.b1 # g.team_b_turn_score
         THEN [event |-> "TAGS_CHANGED_ON_BOARD_1", last_board_played |-> 1]
         ELSE [event |-> "none", last_board_played |-> g.last_board_played]
    ELSE IF t.a2 + t.b2 > 0
    THEN IF t.a2 # g.team_a_turn_score \/ t.b2 # g.team_b_turn_score
         THEN [event |-> "TAGS_CHANGED_ON_BOARD_2", last_board_played |-> 2]
         ELSE [event |-> "none", last_board_played |-> g.last_board_played]
    ELSE IF g.team_a_turn_score + g.team_b_turn_score > 0
    THEN IF g.last_board_played = 1
         THEN [event |-> "TAGS_CHANGED_ON_BOARD_1",
               last_board_played |-> g.last_board_played]
         ELSE [event |-> "TAGS_CHANGED_ON_BOARD_2",
               last_board_played |-> g.last_board_played]
    ELSE [event |-> "none", last_board_played |-> g.last_board_played]

tag_event(g, ss, mw) == Only({ tag_event_of(g, t) : t \in {board_tallies(ss, mw)} })

(* the part of get_event after the button check timing out only once the  *)
(* turn has lasted longer than the timeout                                 *)
after_buttons_late_timeout(g, ss1, te, b_age1, s_age, buttons_due, sensors_due) ==
    [event |-> IF te.event # "none" THEN te.event
               ELSE IF g.turn_duration > timeout_in_seconds THEN "TIMEOUT"
               ELSE "NO_CHANGE",
     game |-> [g EXCEPT !.last_board_played = te.last_board_played],
     sensors |-> ss1,
     button_age |-> b_age1,
     sensor_age |-> IF sensors_due THEN 0 ELSE s_age,
     button_read |-> buttons_due, sensors_read |-> sensors_due]

(* The part of get_event after the button check, given the outcome te of   *)
(* the sensor branch.                                                      *)
after_buttons(g, ss1, te, b_age1, s_age, buttons_due, sensors_due) ==
    [event |-> IF te.event # "none" THEN te.event
               ELSE IF g.turn_duration >= timeout_in_seconds THEN "TIMEOUT"
               ELSE "NO_CHANGE",
     game |-> [g EXCEPT !.last_board_played = te.last_board_played],
     sensors |-> ss1,
     button_age |-> b_age1,
     sensor_age |-> IF sensors_due THEN 0 ELSE s_age,
     button_read |-> buttons_due, sensors_read |-> sensors_due]

(* get_event without the 4-second debounce on the buttons *)
get_event_no_debounce(g, ss, mw, b_age, s_age, button_state, scene) ==
    LET buttons_due == b_age >= button_polling_interval_in_seconds
        sensors_due == s_age >= rfid_polling_interval_in_seconds
        b_age1 == IF buttons_due THEN 0 ELSE b_age
        ss1 == IF sensors_due THEN read_sensors(ss, scene) ELSE ss
    IN  IF buttons_due /\ (button_state[1] \/ button_state[2])
        THEN [event |-> "BUTTON_PRESSED", game |-> g, sensors |-> ss,
              button_age |-> 0, sensor_age |-> s_age,
              button_read |-> TRUE, sensors_read |-> FALSE]
        ELSE IF buttons_due /\ button_state[3]
        THEN [event |-> "QUIT", game |-> g, sensors |-> ss,
              button_age |-> 0, sensor_age |-> s_age,
              button_read |-> TRUE, sensors_read |-> FALSE]
        ELSE Only({ after_buttons(g, ss1, te, b_age1, s_age, buttons_due, sensors_due) :
                    te \in {IF sensors_due THEN tag_event(g, ss1, mw)
                            ELSE [event |-> "none",
                                  last_board_played |-> g.last_board_played]} })

(* get_event in the order its header comment gives: tag changes first,     *)
(* then the buttons, then the timeout                                      *)
after_tags_first(g, ss1, te, b_age, s_age1, buttons_due, sensors_due, button_state) ==
    IF te.event # "none"
    THEN [event |-> te.event,
          game |-> [g EXCEPT !.last_board_played = te.last_board_played],
          sensors |-> ss1, button_age |-> b_age, sensor_age |-> s_age1,
          button_read |-> FALSE, sensors_read |-> sensors_due]
    ELSE IF buttons_due /\ (button_state[1] \/ button_state[2])
    THEN [event |-> "BUTTON_PRESSED", game |-> g, sensors |-> ss1,
          button_age |-> 0, sensor_age |-> s_age1,
          button_read |-> TRUE, sensors_read |-> sensors_due]
    ELSE IF buttons_due /\ button_state[3]
    THEN [event |-> "QUIT", game |-> g, sensors |-> ss1,
          button_age |-> 0, sensor_age |-> s_age1,
          button_read |-> TRUE, sensors_read |-> sensors_due]
    ELSE [event |-> IF g.turn_duration >= timeout_in_seconds THEN "TIMEOUT"
                    ELSE "NO_CHANGE",
          game |-> g, sensors |-> ss1,
          button_age |-> IF buttons_due THEN 0 ELSE b_age,
          sensor_age |-> s_age1,
          button_read |-> buttons_due, sensors_read |-> sensors_due]

get_event_tags_first(g, ss, mw, b_age, s_age, button_state, scene) ==
    LET buttons_due == g.turn_duration > Debounce
                        /\ b_age >= button_polling_interval_in_seconds
        sensors_due == s_age >= rfid_polling_interval_in_seconds
        ss1 == IF sensors_due THEN read_sensors(ss, scene) ELSE ss
        s_age1 == IF sensors_due THEN 0 ELSE s_age
    IN  Only({ after_tags_first(g, ss1, te, b_age, s_age1, buttons_due, sensors_due,
                                button_state) :
               te \in {IF sensors_due THEN tag_event(g, ss1, mw)
                       ELSE [event |-> "none",
                             last_board_played |-> g.last_board_played]} })

(* get_event applying a tag change to the turn scores itself, instead of   *)
(* leaving that to the handlers                                            *)
with_turn_score(r, mw) ==
    IF r.event = "TAGS_CHANGED_ON_BOARD_1"
    THEN [r EXCEPT !.game = update_turn_score(r.game, r.sensors, mw, 1)]
    ELSE IF r.event = "TAGS_CHANGED_ON_BOARD_2"
    THEN [r EXCEPT !.game = update_turn_score(r.game, r.sensors, mw, 2)]
    ELSE r

get_event_scoring(g, ss, mw, b_age, s_age, button_state, scene) ==
    LET buttons_due == g.turn_duration > Debounce
                        /\ b_age >= button_polling_interval_in_seconds
        sensors_due == s_age >= rfid_polling_interval_in_seconds
        b_age1 == IF buttons_due THEN 0 ELSE b_age
        ss1 == IF sensors_due THEN read_sensors(ss, scene) ELSE ss
    IN  IF buttons_due /\ (button_state[1] \/ button_state[2])
        THEN [event |-> "BUTTON_PRESSED", game |-> g, sensors |-> ss,
              button_age |-> 0, sensor_age |-> s_age,
              button_read |-> TRUE, sensors_read |-> FALSE]
        ELSE IF buttons_due /\ button_state[3]
        THEN [event |-> "QUIT", game |-> g, sensors |-> ss,
              button_age |-> 0, sensor_age |-> s_age,
              button_read |-> TRUE, sensors_read |-> FALSE]
        ELSE Only({ with_turn_score(r, mw) :
                    r \in { after_buttons(g, ss1, te, b_age1, s_age,
                                          buttons_due, sensors_due) :
                            te \in {IF sensors_due THEN tag_event(g, ss1, mw)
                                    ELSE [event |-> "none",
                                          last_board_played |->
                                              g.last_board_played]} } })

(* get_event testing the quit signal before the board flags *)
get_event_quit_first(g, ss, mw, b_age, s_age, button_state, scene) ==
    LET buttons_due == g.turn_duration > Debounce
                        /\ b_age >= button_polling_interval_in_seconds
        sensors_due == s_age >= rfid_polling_interval_in_seconds
        b_age1 == IF buttons_due THEN 0 ELSE b_age
        ss1 == IF sensors_due THEN read_sensors(ss, scene) ELSE ss
    IN  IF buttons_due /\ button_state[3]
        THEN [event |-> "QUIT", game |-> g, sensors |-> ss,
              button_age |-> 0, sensor_age |-> s_age,
              button_read |-> TRUE, sensors_read |-> FALSE]
        ELSE IF buttons_due /\ (button_state[1] \/ button_state[2])
        THEN [event |-> "BUTTON_PRESSED", game |-> g, sensors |-> ss,
              button_age |-> 0, sensor_age |-> s_age,
              button_read |-> TRUE, sensors_read |-> FALSE]
        ELSE Only({ after_buttons(g, ss1, te, b_age1, s_age, buttons_due, sensors_due) :
                    te \in {IF sensors_due THEN tag_event(g, ss1, mw)
                            ELSE [event |-> "none",
                                  last_board_played |-> g.last_board_played]} })

(* get_event with the answers the callbacks give when they are called. *)
get_event(g, ss, mw, b_age, s_age, button_state, scene) ==
    LET buttons_due == g.turn_duration > Debounce
                        /\ b_age >= button_polling_interval_in_seconds
        sensors_due == s_age >= rfid_polling_interval_in_seconds
        b_age1 == IF buttons_due THEN 0 ELSE b_age
        ss1 == IF sensors_due THEN read_sensors(ss, scene) ELSE ss
    IN  IF buttons_due /\ (button_state[1] \/ button_state[2])
        THEN [event |-> "BUTTON_PRESSED", game |-> g, sensors |-> ss,
              button_age |-> 0, sensor_age |-> s_age,
              button_read |-> TRUE, sensors_read |-> FALSE]
        ELSE IF buttons_due /\ button_state[3]
        THEN [event |-> "QUIT", game |-> g, sensors |-> ss,
              button_age |-> 0, sensor_age |-> s_age,
              button_read |-> TRUE, sensors_read |-> FALSE]
        ELSE Only({ after_buttons(g, ss1, te, b_age1, s_age, buttons_due, sensors_due) :
                    te \in {IF sensors_due THEN tag_event(g, ss1, mw)
                            ELSE [event |-> "none",
                                  last_board_played |-> g.last_board_played]} })

----------------------------------------------------------------------------
(* Event handlers.  A handler yields the next GameState, the score fields  *)
(* it leaves, and which of end_turn, new_game and update_turn_score it     *)
(* performed (at_end_turn and at_update hold the score fields end_turn and *)
(* update_turn_score were called on).  display only reads the scores and   *)
(* hands them to the display callback.                                     *)

Stay(st, g) ==
    [state |-> st, game |-> g, end_turn |-> FALSE, at_end_turn |-> new_game,
     new_game |-> FALSE, update_turn_score |-> 0, at_update |-> new_game]

EndTurn(st, g) ==
    [state |-> st, game |-> end_turn(g), end_turn |-> TRUE, at_end_turn |-> g,
     new_game |-> FALSE, update_turn_score |-> 0, at_update |-> new_game]

NewGame(st, g) ==
    [state |-> st, game |-> g, end_turn |-> FALSE, at_end_turn |-> new_game,
     new_game |-> TRUE, update_turn_score |-> 0, at_update |-> new_game]

(* The same paths with a call of update_turn_score(n) on the score fields  *)
(* g before the return, the end_turn or after the new_game: the outcome    *)
(* also names the board number and the score fields the call was made on.  *)
UpdateTurn(st, g, ss, mw, n) ==
    [Stay(st, update_turn_score(g, ss, mw, n)) EXCEPT
        !.update_turn_score = n, !.at_update = g]

UpdateEndTurn(st, g, ss, mw, n) ==
    [EndTurn(st, update_turn_score(g, ss, mw, n)) EXCEPT
        !.update_turn_score = n, !.at_update = g]

UpdateNewGame(st, g, ss, mw, n) ==
    [NewGame(st, update_turn_score(g, ss, mw, n)) EXCEPT
        !.update_turn_score = n, !.at_update = g]

(* process_start_state entering PlayingBoardN without tallying the board *)
process_start_state_no_tally(g, ev, ss, mw) ==
    IF ev = "TAGS_CHANGED_ON_BOARD_1"
    THEN Stay("PLAYING_BOARD_1",
              [g EXCEPT !.turn_number = 1, !.last_board_played = 1])
    ELSE IF ev = "TAGS_CHANGED_ON_BOARD_2"
    THEN Stay("PLAYING_BOARD_2",
              [g EXCEPT !.turn_number = 1, !.last_board_played = 2])
    ELSE Stay("START", g)

process_start_state(g, ev, ss, mw) ==
    IF ev = "NO_CHANGE" THEN Stay("START", g)
    ELSE IF ev = "TIMEOUT" THEN Stay("START", g)
    ELSE IF ev = "TAGS_CHANGED_ON_BOARD_1"
    THEN UpdateTurn("PLAYING_BOARD_1", [g EXCEPT !.turn_number = 1], ss, mw, 1)
    ELSE IF ev = "TAGS_CHANGED_ON_BOARD_2"
    THEN UpdateTurn("PLAYING_BOARD_2", [g EXCEPT !.turn_number = 1], ss, mw, 2)
    ELSE IF ev = "BUTTON_PRESSED" THEN Stay("START", g)
    ELSE Stay("START", g)

(* process_playing_board_1_state ending the turn on the stored turn scores *)
(* when the button is pressed                                              *)
process_playing_board_1_state_stored(g, ev, ss, mw) ==
    IF have_reached_winning_score(g) THEN Stay("GAME_OVER", g)
    ELSE IF ev = "NO_CHANGE" THEN Stay("PLAYING_BOARD_1", g)
    ELSE IF ev = "TIMEOUT"
    THEN UpdateEndTurn("TURN_OVER", g, ss, mw, 1)
    ELSE IF ev = "TAGS_CHANGED_ON_BOARD_1"
    THEN UpdateTurn("PLAYING_BOARD_1", g, ss, mw, 1)
    ELSE IF ev = "TAGS_CHANGED_ON_BOARD_2" THEN Stay("PLAYING_BOARD_1", g)
    ELSE IF ev = "BUTTON_PRESSED"
    THEN EndTurn("TURN_OVER", [g EXCEPT !.last_board_played = 1])
    ELSE Stay("PLAYING_BOARD_1", g)

process_playing_board_1_state(g, ev, ss, mw) ==
    IF have_reached_winning_score(g) THEN Stay("GAME_OVER", g)
    ELSE IF ev = "NO_CHANGE" THEN Stay("PLAYING_BOARD_1", g)
    ELSE IF ev = "TIMEOUT"
    THEN UpdateEndTurn("TURN_OVER", g, ss, mw, 1)
    ELSE IF ev = "TAGS_CHANGED_ON_BOARD_1"
    THEN UpdateTurn("PLAYING_BOARD_1", g, ss, mw, 1)
    ELSE IF ev = "TAGS_CHANGED_ON_BOARD_2" THEN Stay("PLAYING_BOARD_1", g)
    ELSE IF ev = "BUTTON_PRESSED"
    THEN UpdateEndTurn("TURN_OVER", g, ss, mw, 1)
    ELSE Stay("PLAYING_BOARD_1", g)

(* process_playing_board_2_state following a tag change on board 1 to     *)
(* board 1 instead of ignoring it                                          *)
process_playing_board_2_state_switches(g, ev, ss, mw) ==
    IF have_reached_winning_score(g) THEN Stay("GAME_OVER", g)
    ELSE IF ev = "NO_CHANGE" THEN Stay("PLAYING_BOARD_2", g)
    ELSE IF ev = "TIMEOUT"
    THEN UpdateEndTurn("TURN_OVER", g, ss, mw, 2)
    ELSE IF ev = "TAGS_CHANGED_ON_BOARD_1"
    THEN UpdateTurn("PLAYING_BOARD_1", g, ss, mw, 1)
    ELSE IF ev = "TAGS_CHANGED_ON_BOARD_2"
    THEN UpdateTurn("PLAYING_BOARD_2", g, ss, mw, 2)
    ELSE IF ev = "BUTTON_PRESSED"
    THEN UpdateEndTurn("TURN_OVER", g, ss, mw, 2)
    ELSE Stay("PLAYING_BOARD_2", g)

process_playing_board_2_state(g, ev, ss, mw) ==
    IF have_reached_winning_score(g) THEN Stay("GAME_OVER", g)
    ELSE IF ev = "NO_CHANGE" THEN Stay("PLAYING_BOARD_2", g)
    ELSE IF ev = "TIMEOUT"
    THEN UpdateEndTurn("TURN_OVER", g, ss, mw, 2)
    ELSE IF ev = "TAGS_CHANGED_ON_BOARD_1" THEN Stay("PLAYING_BOARD_2", g)
    ELSE IF ev = "TAGS_CHANGED_ON_BOARD_2"
    THEN UpdateTurn("PLAYING_BOARD_2", g, ss, mw, 2)
    ELSE IF ev = "BUTTON_PRESSED"
    THEN UpdateEndTurn("TURN_OVER", g, ss, mw, 2)
    ELSE Stay("PLAYING_BOARD_2", g)

(* process_turn_over_state checking the winning score before the boards *)
process_turn_over_state_win_first(g, ev, ss, mw) ==
    IF have_reached_winning_score(g) THEN Stay("GAME_OVER", g)
    ELSE IF are_boards_clear(ss, mw) THEN Stay("BOARD_CLEAR", g)
    ELSE IF ev = "TIMEOUT" THEN Stay("GAME_OVER", g)
    ELSE IF ev = "BUTTON_PRESSED" THEN Stay("GAME_OVER", g)
    ELSE Stay("TURN_OVER", g)

(* process_turn_over_state tallying board 1 again on a tag change there    *)
(* while it waits for the boards to clear                                  *)
process_turn_over_state_tallies(g, ev, ss, mw) ==
    IF are_boards_clear(ss, mw) THEN Stay("BOARD_CLEAR", g)
    ELSE IF have_reached_winning_score(g) THEN Stay("GAME_OVER", g)
    ELSE IF ev = "TIMEOUT" THEN Stay("GAME_OVER", g)
    ELSE IF ev = "BUTTON_PRESSED" THEN Stay("GAME_OVER", g)
    ELSE IF ev = "TAGS_CHANGED_ON_BOARD_1"
    THEN UpdateTurn("TURN_OVER", g, ss, mw, 1)
    ELSE Stay("TURN_OVER", g)

(* process_turn_over_state without the winning-score check *)
process_turn_over_state_unchecked(g, ev, ss, mw) ==
    IF are_boards_clear(ss, mw) THEN Stay("BOARD_CLEAR", g)
    ELSE IF ev = "TIMEOUT" THEN Stay("GAME_OVER", g)
    ELSE IF ev = "BUTTON_PRESSED" THEN Stay("GAME_OVER", g)
    ELSE Stay("TURN_OVER", g)

process_turn_over_state(g, ev, ss, mw) ==
    IF are_boards_clear(ss, mw) THEN Stay("BOARD_CLEAR", g)
    ELSE IF have_reached_winning_score(g) THEN Stay("GAME_OVER", g)
    ELSE IF ev = "TIMEOUT" THEN Stay("GAME_OVER", g)
    ELSE IF ev = "BUTTON_PRESSED" THEN Stay("GAME_OVER", g)
    ELSE Stay("TURN_OVER", g)

(* process_board_clear_state resetting turn_number on a tag change, as     *)
(* process_start_state does                                                *)
process_board_clear_state_resets_turn(g, ev, ss, mw) ==
    IF have_reached_winning_score(g) THEN Stay("GAME_OVER", g)
    ELSE IF ev = "NO_CHANGE" THEN Stay("BOARD_CLEAR", g)
    ELSE IF ev = "TIMEOUT" THEN Stay("GAME_OVER", g)
    ELSE IF ev = "TAGS_CHANGED_ON_BOARD_1"
    THEN UpdateTurn("PLAYING_BOARD_1", [g EXCEPT !.turn_number = 1], ss, mw, 1)
    ELSE IF ev = "TAGS_CHANGED_ON_BOARD_2"
    THEN UpdateTurn("PLAYING_BOARD_2", [g EXCEPT !.turn_number = 1], ss, mw, 2)
    ELSE IF ev = "BUTTON_PRESSED" THEN Stay("GAME_OVER", g)
    ELSE Stay("BOARD_CLEAR", g)

process_board_clear_state(g, ev, ss, mw) ==
    IF have_reached_winning_score(g) THEN Stay("GAME_OVER", g)
    ELSE IF ev = "NO_CHANGE" THEN Stay("BOARD_CLEAR", g)
    ELSE IF ev = "TIMEOUT" THEN Stay("GAME_OVER", g)
    ELSE IF ev = "TAGS_CHANGED_ON_BOARD_1"
    THEN UpdateTurn("PLAYING_BOARD_1", g, ss, mw, 1)
    ELSE IF ev = "TAGS_CHANGED_ON_BOARD_2"
    THEN UpdateTurn("PLAYING_BOARD_2", g, ss, mw, 2)
    ELSE IF ev = "BUTTON_PRESSED" THEN Stay("GAME_OVER", g)
    ELSE Stay("BOARD_CLEAR", g)

(* process_playing_game_over_state checking the winning score first, as   *)
(* the other handlers do                                                   *)
process_playing_game_over_state_checked(g, ev, ss, mw) ==
    IF have_reached_winning_score(g) THEN Stay("GAME_OVER", g)
    ELSE IF ev = "NO_CHANGE" THEN Stay("GAME_OVER", g)
    ELSE IF ev = "TIMEOUT" THEN NewGame("START", new_game)
    ELSE IF ev = "TAGS_CHANGED_ON_BOARD_1"
    THEN UpdateNewGame("PLAYING_BOARD_1", new_game, ss, mw, 1)
    ELSE IF ev = "TAGS_CHANGED_ON_BOARD_2"
    THEN UpdateNewGame("PLAYING_BOARD_2", new_game, ss, mw, 2)
    ELSE IF ev = "BUTTON_PRESSED" THEN NewGame("START", new_game)
    ELSE Stay("GAME_OVER", g)

(* process_playing_game_over_state going on with the old game on a tag    *)
(* change, without new_game                                                *)
process_playing_game_over_state_plays_on(g, ev, ss, mw) ==
    IF ev = "NO_CHANGE" THEN Stay("GAME_OVER", g)
    ELSE IF ev = "TIMEOUT" THEN NewGame("START", new_game)
    ELSE IF ev = "TAGS_CHANGED_ON_BOARD_1"
    THEN UpdateTurn("PLAYING_BOARD_1", g, ss, mw, 1)
    ELSE IF ev = "TAGS_CHANGED_ON_BOARD_2"
    THEN UpdateTurn("PLAYING_BOARD_2", g, ss, mw, 2)
    ELSE IF ev = "BUTTON_PRESSED" THEN NewGame("START", new_game)
    ELSE Stay("GAME_OVER", g)

process_playing_game_over_state(g, ev, ss, mw) ==
    IF ev = "NO_CHANGE" THEN Stay("GAME_OVER", g)
    ELSE IF ev = "TIMEOUT" THEN NewGame("START", new_game)
    ELSE IF ev = "TAGS_CHANGED_ON_BOARD_1"
    THEN UpdateNewGame("PLAYING_BOARD_1", new_game, ss, mw, 1)
    ELSE IF ev = "TAGS_CHANGED_ON_BOARD_2"
    THEN UpdateNewGame("PLAYING_BOARD_2", new_game, ss, mw, 2)
    ELSE IF ev = "BUTTON_PRESSED" THEN NewGame("START", new_game)
    ELSE Stay("GAME_OVER", g)

(* The dispatch table of play. *)
state_machine(st, g, ev, ss, mw) ==
    CASE st = "START" -> process_start_state(g, ev, ss, mw)
      [] st = "PLAYING_BOARD_1" -> process_playing_board_1_state(g, ev, ss, mw)
      [] st = "PLAYING_BOARD_2" -> process_playing_board_2_state(g, ev, ss, mw)
      [] st = "BOARD_CLEAR" -> process_board_clear_state(g, ev, ss, mw)
      [] st = "TURN_OVER" -> process_turn_over_state(g, ev, ss, mw)
      [] st = "GAME_OVER" -> process_playing_game_over_state(g, ev, ss, mw)

----------------------------------------------------------------------------
(* The game loop *)

(* the log callback called only when the state changes *)
log_calls_on_transition(previous_state, next_state, ev) ==
    IF previous_state # next_state
    THEN << [event |-> ev, previous_state |-> previous_state,
             next_state |-> next_state] >>
    ELSE <<>>

(* The calls of the log callback one pass of the loop makes, each with the *)
(* event and the two states its message names.                             *)
log_calls(previous_state, next_state, ev) ==
    IF previous_state # "START" \/ next_state # "START" \/ ev # "NO_CHANGE"
    THEN << [event |-> ev, previous_state |-> previous_state,
             next_state |-> next_state] >>
    ELSE <<>>

(* The cached readings give no team a point on either board. *)
boards_read_empty(ss, mw) ==
    \E t \in {board_tallies(ss, mw)} : t.a1 + t.b1 + t.a2 + t.b2 = 0

IdlePoll ==
    [button_state |-> <<FALSE, FALSE, FALSE>>, button_due |-> FALSE,
     button_read |-> FALSE, sensors_due |-> FALSE, sensors_read |-> FALSE, tags_changed |-> FALSE]

(* How long the latest stay in GameOver has lasted, and the state whose    *)
(* Timeout ended the game ("GAME_OVER" if the game did not end by a        *)
(* Timeout); the pass that leaves GameOver still carries the stay it ended.*)
NoGameOver == [age |-> 0, timed_out_in |-> "GAME_OVER"]

NoTrace ==
    [entry |-> new_game, end_turn |-> FALSE, at_end_turn |-> new_game,
     new_game |-> FALSE, update_turn_score |-> 0, at_update |-> new_game,
     logged |-> FALSE, log |-> <<>>, previous_state |-> "START",
     awaiting_clear |-> FALSE, handled |-> FALSE, game_over |-> NoGameOver]

(* The same after a pass that went from state st to next_state on event ev *)
(* and then slept d, given the record before the pass: the time since      *)
(* GameOver was entered only runs while the machine stays there.           *)
game_over_after(before, st, next_state, ev, d) ==
    IF st = "GAME_OVER"
    THEN IF next_state = "GAME_OVER"
         THEN [before EXCEPT !.age = Min2(@ + d, timeout_in_seconds)]
         ELSE before
    ELSE IF next_state = "GAME_OVER"
         THEN [age |-> d,
               timed_out_in |-> IF ev = "TIMEOUT" THEN st ELSE "GAME_OVER"]
         ELSE NoGameOver

NoTally == [team |-> "UNKNOWN", location |-> "UNKNOWN", result |-> 0]

(* Game.__init__ followed by the start of play. *)
Init ==
    /\ state = "START"
    /\ \E d \in StartDelay :
          /\ game = [new_game EXCEPT !.turn_duration = d]
          /\ button_age = Min2(d, button_polling_interval_in_seconds)
          /\ sensor_age = Min2(d, rfid_polling_interval_in_seconds)
    /\ sensors = GameSensors
    /\ minimum_sensor_weight = DefaultMinimumSensorWeight
    /\ event = "NO_CHANGE"
    /\ pc = "get_event"
    /\ polled = IdlePoll
    /\ trace = NoTrace
    /\ tally_call = NoTally

(* event = self.get_event() *)
GetEvent ==
    /\ pc = "get_event"
    /\ \E button_state \in ButtonStates, scene \in Scenes :
       \E r \in {get_event(game, sensors, minimum_sensor_weight,
                           button_age, sensor_age, button_state, scene)} :
          LET due == sensor_age >= rfid_polling_interval_in_seconds
              mw == minimum_sensor_weight
          IN  /\ event' = r.event
              /\ game' = r.game
              /\ sensors' = r.sensors
              /\ button_age' = r.button_age
              /\ sensor_age' = r.sensor_age
              /\ polled' = [button_state |-> button_state,
                            button_due |->
                                button_age >= button_polling_interval_in_seconds,
                            button_read |-> r.button_read,
                            sensors_due |-> due,
                            sensors_read |-> r.sensors_read,
                            tags_changed |->
                                due /\ tag_event(game, read_sensors(sensors, scene),
                                                 mw).event # "none"]
              /\ trace' =
                    [NoTrace EXCEPT
                        !.awaiting_clear =
                            IF r.sensors_read /\ boards_read_empty(r.sensors, mw)
                            THEN FALSE ELSE trace.awaiting_clear,
                        !.game_over = IF state = "GAME_OVER" THEN trace.game_over
                                      ELSE NoGameOver]
    /\ pc' = "dispatch"
    /\ UNCHANGED <<state, minimum_sensor_weight, tally_call>>

(* One pass of the loop body after get_event: the handler of state st, the *)
(* log call and the sleep.                                                 *)
Dispatch(st) ==
    /\ pc = "dispatch"
    /\ state = st
    /\ \E r \in {state_machine(st, game, event, sensors, minimum_sensor_weight)} :
           /\ r.game.turn_number <= MaxTurnNumber
           /\ state' = r.state
           /\ \E d \in Elapsed :
                 /\ d = ShortSleep =>
                       /\ \/ r.game.turn_duration <= MaxBusyTurn
                          \/ r.game.turn_duration >= timeout_in_seconds
                       /\ (st = "GAME_OVER" /\ r.state = "GAME_OVER") =>
                             \/ trace.game_over.age <= MaxBusyTurn
                             \/ trace.game_over.age >= timeout_in_seconds
                 /\ game' = [r.game EXCEPT
                                !.turn_duration = Min2(@ + d, timeout_in_seconds)]
                 /\ button_age' = Min2(button_age + d, button_polling_interval_in_seconds)
                 /\ sensor_age' = Min2(sensor_age + d, rfid_polling_interval_in_seconds)
                 /\ trace' =
                      [entry |-> game,
                       end_turn |-> r.end_turn, at_end_turn |-> r.at_end_turn,
                       new_game |-> r.new_game,
                       update_turn_score |-> r.update_turn_score,
                       at_update |-> r.at_update,
                       logged |-> log_calls(st, r.state, event) # <<>>,
                       log |-> log_calls(st, r.state, event),
                       previous_state |-> st,
                       handled |-> TRUE,
                       awaiting_clear |->
                          IF r.end_turn
                          THEN ~boards_read_empty(sensors, minimum_sensor_weight)
                          ELSE IF r.new_game THEN FALSE
                          ELSE trace.awaiting_clear,
                       game_over |->
                          game_over_after(trace.game_over, st, r.state, event, d)]
    /\ pc' = IF event = "QUIT" THEN "done" ELSE "get_event"
    /\ polled' = IdlePoll
    /\ UNCHANGED <<sensors, minimum_sensor_weight, event, tally_call>>

ProcessStart == Dispatch("START")
ProcessPlayingBoard1 == Dispatch("PLAYING_BOARD_1")
ProcessPlayingBoard2 == Dispatch("PLAYING_BOARD_2")
ProcessTurnOver == Dispatch("TURN_OVER")
ProcessBoardClear == Dispatch("BOARD_CLEAR")
ProcessGameOver == Dispatch("GAME_OVER")

Next ==
    \/ GetEvent
    \/ ProcessStart
    \/ ProcessPlayingBoard1
    \/ ProcessPlayingBoard2
    \/ ProcessTurnOver
    \/ ProcessBoardClear
    \/ ProcessGameOver

Spec == Init /\ [][Next]_vars

TypeOK ==
    /\ state \in GameState
    /\ event \in GameEvent
    /\ pc \in {"get_event", "dispatch", "done"}

----------------------------------------------------------------------------
(* The tally engine on its own: a Game whose sensors, weights, threshold   *)
(* and cached readings are drawn from bounded sets, and on which            *)
(* tally_location is called directly.                                       *)

TallyIds == {"A1", "B1", "X9"}          \* X9 is on no roster

RECURSIVE SeqsUpTo(_, _)
SeqsUpTo(S, n) ==
    IF n = 0 THEN {<<>>}
    ELSE LET shorter == SeqsUpTo(S, n - 1)
         IN  shorter \cup {Append(q, x) : q \in shorter, x \in S}

TallyReadings == SeqsUpTo(TallyIds, MaxReadLen)
TallyWeights == {1, 2}
TallyThresholds == {1, 2}
TallyLocations == {"BOARD_1", "HOLE_1", "BOARD_2"}

InitTally ==
    /\ state = "START"
    /\ game = new_game
    /\ button_age = 0
    /\ sensor_age = 0
    /\ \E w1 \in TallyWeights, r1 \in TallyReadings, r2 \in TallyReadings,
          r3 \in {<<>>, <<"A1">>} :
          sensors =
            << [Sensor("TOP_1", w1, "BOARD_1", 1) EXCEPT !.latest_reading = r1],
               [Sensor("EDGE_1", 1, "BOARD_1", 3) EXCEPT !.latest_reading = r2],
               [Sensor("HOLE_1", 1, "HOLE_1", 3) EXCEPT !.latest_reading = r3] >>
    /\ minimum_sensor_weight \in TallyThresholds
    /\ event = "NO_CHANGE"
    /\ pc = "tally"
    /\ polled = IdlePoll
    /\ trace = NoTrace
    /\ tally_call = NoTally

TallyLocation ==
    /\ pc = "tally"
    /\ \E team \in Team, location \in TallyLocations :
          tally_call' =
            [team |-> team, location |-> location,
             result |-> tally_location(sensors, minimum_sensor_weight, team, location)]
    /\ UNCHANGED <<state, game, sensors, minimum_sensor_weight, button_age,
                   sensor_age, event, pc, polled, trace>>

NextTally == TallyLocation

SpecTally == InitTally /\ [][NextTally]_vars

----------------------------------------------------------------------------
(* end_turn on its own: a Game whose game scores and turn scores are drawn *)
(* from bounded sets, and on which end_turn is called directly.            *)

DrawnScores == 0..MaxDrawnScore

InitEndTurn ==
    /\ state = "PLAYING_BOARD_1"
    /\ \E ga \in DrawnScores, gb \in DrawnScores,
          ta \in DrawnScores, tb \in DrawnScores :
          game = [new_game EXCEPT !.team_a_game_score = ga,
                                  !.team_b_game_score = gb,
                                  !.team_a_turn_score = ta,
                                  !.team_b_turn_score = tb,
                                  !.last_board_played = 1]
    /\ button_age = 0
    /\ sensor_age = 0
    /\ sensors = GameSensors
    /\ minimum_sensor_weight = DefaultMinimumSensorWeight
    /\ event = "NO_CHANGE"
    /\ pc = "end_turn"
    /\ polled = IdlePoll
    /\ trace = NoTrace
    /\ tally_call = NoTally

CallEndTurn ==
    /\ pc = "end_turn"
    /\ game' = end_turn(game)
    /\ trace' = [NoTrace EXCEPT !.end_turn = TRUE, !.at_end_turn = game,
                                !.entry = game, !.handled = TRUE]
    /\ pc' = "ended"
    /\ UNCHANGED <<state, sensors, minimum_sensor_weight, button_age,
                   sensor_age, event, polled, tally_call>>

NextEndTurn == CallEndTurn

SpecEndTurn == InitEndTurn /\ [][NextEndTurn]_vars

----------------------------------------------------------------------------
(* Helpers of the properties *)

(* Sensor.was_tag_read, by rfid *)
was_tag_read(sensor, rfid) ==
    \E i \in 1..Len(sensor.latest_reading) : sensor.latest_reading[i] = rfid

RECURSIVE SumOver(_, _)
SumOver(S, f) ==
    IF S = {} THEN 0
    ELSE LET x == CHOOSE y \in S : TRUE IN f[x] + SumOver(S \ {x}, f)

RECURSIVE MaxOver(_, _)
MaxOver(S, f) ==
    IF S = {} THEN 0
    ELSE LET x == CHOOSE y \in S : TRUE IN Max2(f[x], MaxOver(S \ {x}, f))

(* The sensors (by position) at a location whose cached reading holds rfid *)
ReadersAt(ss, location, rfid) ==
    {i \in 1..Len(ss) : ss[i].location = location /\ was_tag_read(ss[i], rfid)}

(* The tally as the specification states it: each roster tag of the team   *)
(* whose readers' weights sum to the threshold counts once, at the best    *)
(* points among its readers.                                               *)
StatedTally(ss, mw, team, location) ==
    LET weight == [i \in 1..Len(ss) |-> ss[i].weight]
        points == [i \in 1..Len(ss) |-> ss[i].points_to_award]
        credited == {r \in RosterIds :
                        /\ get_tag_by_id(r).team = team
                        /\ ReadersAt(ss, location, r) # {}
                        /\ SumOver(ReadersAt(ss, location, r), weight) >= mw}
        worth == [r \in RosterIds |-> MaxOver(ReadersAt(ss, location, r), points)]
    IN  SumOver(credited, worth)

NoDuplicates(q) == \A i, j \in 1..Len(q) : q[i] = q[j] => i = j

----------------------------------------------------------------------------
(* C1: tally_location(T, L) is the sum, over the roster tags of team T     *)
(* whose summed weight over the sensors at L that read them reaches        *)
(* minimum_sensor_weight, of the maximum points_to_award among those       *)
(* sensors; unknown ids, the other team's tags and sensors elsewhere        *)
(* contribute nothing.                                                      *)
C1_TallyIsStatedTally ==
    tally_call.team \in Team =>
        tally_call.result =
            StatedTally(sensors, minimum_sensor_weight,
                        tally_call.team, tally_call.location)

(* The same statement restricted to readings in which no sensor lists a    *)
(* tag twice.                                                               *)
TallyIsStatedTallyOnSets ==
    (tally_call.team \in Team
     /\ \A i \in 1..Len(sensors) : NoDuplicates(sensors[i].latest_reading)) =>
        tally_call.result =
            StatedTally(sensors, minimum_sensor_weight,
                        tally_call.team, tally_call.location)

----------------------------------------------------------------------------
(* Helpers of the game-loop properties *)

Scores(g) ==
    <<g.team_a_game_score, g.team_b_game_score,
      g.team_a_turn_score, g.team_b_turn_score, g.turn_number>>

Playing == {"PLAYING_BOARD_1", "PLAYING_BOARD_2"}

(* A handler has just run (the loop is back at get_event, or has ended). *)
Handled == pc \in {"get_event", "done"} /\ trace.handled

(* The winning condition spelled out on the score fields. *)
Reached21(g) ==
    \/ g.team_a_game_score
         + Max2(0, g.team_a_turn_score - g.team_b_turn_score) >= 21
    \/ g.team_b_game_score
         + Max2(0, g.team_b_turn_score - g.team_a_turn_score) >= 21

----------------------------------------------------------------------------
(* C2: end_turn called with turn scores (a, b) leaves both turn scores 0   *)
(* and turn_number one higher; when a > b it adds a-b to team A's game     *)
(* score and leaves B's alone, otherwise it adds b-a to team B's game      *)
(* score (0 on a tie) and leaves A's alone.                                *)
C2_EndTurn ==
    (Handled /\ trace.end_turn) =>
        LET before == trace.at_end_turn
            a == before.team_a_turn_score
            b == before.team_b_turn_score
        IN  /\ game.team_a_turn_score = 0
            /\ game.team_b_turn_score = 0
            /\ game.turn_number = before.turn_number + 1
            /\ IF a > b
               THEN /\ game.team_a_game_score = before.team_a_game_score + (a - b)
                    /\ game.team_b_game_score = before.team_b_game_score
               ELSE /\ game.team_b_game_score = before.team_b_game_score + (b - a)
                    /\ game.team_a_game_score = before.team_a_game_score

(* end_turn has run on the turn scores 5 and 2 *)
C2_Witness ==
    /\ Handled /\ trace.end_turn
    /\ trace.at_end_turn.team_a_turn_score = 5
    /\ trace.at_end_turn.team_b_turn_score = 2
    /\ game.team_a_game_score = trace.at_end_turn.team_a_game_score + 3

(* end_turn has run on a tie *)
EndTurnOnTie ==
    ~ (/\ Handled /\ trace.end_turn
       /\ trace.at_end_turn.team_a_turn_score = 1
       /\ trace.at_end_turn.team_b_turn_score = 1)

(* end_turn has run with team B ahead *)
EndTurnBLeads ==
    ~ (/\ Handled /\ trace.end_turn
       /\ trace.at_end_turn.team_a_turn_score < trace.at_end_turn.team_b_turn_score)

----------------------------------------------------------------------------
(* C3 as stated: in PlayingBoard1 with stored turn scores (a, b) and no    *)
(* team at 21, ButtonPressed moves to TurnOver, credits the team leading   *)
(* the STORED turn scores with |a-b| and the other with 0, zeroes the turn *)
(* scores and adds 1 to turn_number.                                       *)
C3_ButtonEndsTurnOnStoredScores ==
    [][ (/\ pc = "dispatch" /\ state = "PLAYING_BOARD_1"
         /\ event = "BUTTON_PRESSED"
         /\ total_score(game, "A") < 21 /\ total_score(game, "B") < 21)
        => LET a == game.team_a_turn_score
               b == game.team_b_turn_score
           IN  /\ state' = "TURN_OVER"
               /\ game'.team_a_game_score =
                    game.team_a_game_score + (IF a > b THEN a - b ELSE 0)
               /\ game'.team_b_game_score =
                    game.team_b_game_score + (IF b > a THEN b - a ELSE 0)
               /\ game'.team_a_turn_score = 0
               /\ game'.team_b_turn_score = 0
               /\ game'.turn_number = game.turn_number + 1 ]_vars

(* C3 as amended: in PlayingBoard1 with no team at 21, ButtonPressed moves *)
(* to TurnOver, credits the team leading the board-1 tallies (a1, b1) of   *)
(* the cached readings with |a1-b1| and the other with 0, zeroes the turn  *)
(* scores and adds 1 to turn_number.                                       *)
C3_ButtonEndsTurnOnCachedTally ==
    [][ (/\ pc = "dispatch" /\ state = "PLAYING_BOARD_1"
         /\ event = "BUTTON_PRESSED"
         /\ total_score(game, "A") < 21 /\ total_score(game, "B") < 21)
        => LET a == tally_turn_board_1(sensors, minimum_sensor_weight, "A")
               b == tally_turn_board_1(sensors, minimum_sensor_weight, "B")
           IN  /\ state' = "TURN_OVER"
               /\ game'.team_a_game_score =
                    game.team_a_game_score + (IF a > b THEN a - b ELSE 0)
               /\ game'.team_b_game_score =
                    game.team_b_game_score + (IF b > a THEN b - a ELSE 0)
               /\ game'.team_a_turn_score = 0
               /\ game'.team_b_turn_score = 0
               /\ game'.turn_number = game.turn_number + 1 ]_vars

(* The button has ended a board-1 turn whose stored scores were 5 and 2    *)
(* while the cached readings showed board 1 empty.                         *)
C3_Witness ==
    /\ Handled
    /\ trace.previous_state = "PLAYING_BOARD_1" /\ event = "BUTTON_PRESSED"
    /\ state = "TURN_OVER" /\ trace.end_turn
    /\ trace.entry.team_a_turn_score = 5 /\ trace.entry.team_b_turn_score = 2
    /\ trace.at_end_turn.team_a_turn_score = 0
    /\ game.team_a_game_score = trace.entry.team_a_game_score

(* The button has ended a board-1 turn with scores 5 and 2: A gains 3. *)
ButtonEndsFiveTwo ==
    ~ (/\ Handled
       /\ trace.previous_state = "PLAYING_BOARD_1" /\ event = "BUTTON_PRESSED"
       /\ state = "TURN_OVER"
       /\ trace.at_end_turn.team_a_turn_score = 5
       /\ trace.at_end_turn.team_b_turn_score = 2
       /\ game.team_a_game_score = trace.entry.team_a_game_score + 3)

----------------------------------------------------------------------------
(* C4: after end_turn has put the machine in TurnOver, it enters neither   *)
(* PlayingBoard1 nor PlayingBoard2 in the same game before the sensors     *)
(* have been read with nothing on either board (all four tallies 0).       *)
C4_BoardsClearBeforeNewTurn ==
    state \in Playing => ~ trace.awaiting_clear

(* The same with board 1 alone, which is what are_boards_clear looks at. *)
Board1ClearBeforeNewTurn ==
    [][ (state = "TURN_OVER" /\ state' # "TURN_OVER")
        => \/ state' = "GAME_OVER"
           \/ /\ state' = "BOARD_CLEAR"
              /\ tally_turn_board_1(sensors, minimum_sensor_weight, "A") = 0
              /\ tally_turn_board_1(sensors, minimum_sensor_weight, "B") = 0 ]_vars

----------------------------------------------------------------------------
(* C5: have_reached_winning_score() is true iff team A's or team B's game  *)
(* score plus max(0, own turn score - other turn score) is >= 21, and when *)
(* it is true on entry to the PlayingBoard1, PlayingBoard2 or BoardClear   *)
(* handler, the handler returns GameOver for every event and changes no    *)
(* game score, turn score or turn_number.                                  *)
C5_WinningScorePreempts ==
    [][ /\ have_reached_winning_score(game) <=> Reached21(game)
        /\ (/\ pc = "dispatch"
            /\ state \in {"PLAYING_BOARD_1", "PLAYING_BOARD_2", "BOARD_CLEAR"}
            /\ Reached21(game))
           => (state' = "GAME_OVER" /\ Scores(game') = Scores(game)) ]_vars

(* The PlayingBoard1 handler was entered on ButtonPressed with team B at   *)
(* 21 or more and went to GameOver.                                        *)
C5_Witness ==
    /\ Handled
    /\ trace.previous_state = "PLAYING_BOARD_1" /\ event = "BUTTON_PRESSED"
    /\ Reached21(trace.entry)
    /\ trace.entry.team_b_game_score + trace.entry.team_b_turn_score >= 21
    /\ state = "GAME_OVER"

(* The BoardClear handler was entered with a team at 21 or more. *)
BoardClearEnteredAt21 ==
    ~ (/\ Handled /\ trace.previous_state = "BOARD_CLEAR"
       /\ Reached21(trace.entry) /\ state = "GAME_OVER")

(* The PlayingBoard2 handler was entered with a team at 21 or more. *)
Board2EnteredAt21 ==
    ~ (/\ Handled /\ trace.previous_state = "PLAYING_BOARD_2"
       /\ Reached21(trace.entry) /\ state = "GAME_OVER")

----------------------------------------------------------------------------
(* C6 as stated: the GameOver handler first checks                         *)
(* have_reached_winning_score(); if it is true the handler stays in        *)
(* GameOver for every event.                                               *)
C6_GameOverPreemptedAt21 ==
    [][ (pc = "dispatch" /\ state = "GAME_OVER"
         /\ have_reached_winning_score(game))
        => state' = "GAME_OVER" ]_vars

(* C6 as amended: the GameOver handler does not check                      *)
(* have_reached_winning_score(); also when it is true, NoChange and Quit   *)
(* keep GameOver with the scores unchanged, Timeout and ButtonPressed      *)
(* perform new_game and move to Start, and TagsChangedOnBoardN performs    *)
(* new_game and moves to PlayingBoardN.                                    *)
C6_GameOverRestartsAt21 ==
    [][ (pc = "dispatch" /\ state = "GAME_OVER"
         /\ have_reached_winning_score(game))
        => /\ event \in {"NO_CHANGE", "QUIT"}
                => (state' = "GAME_OVER" /\ Scores(game') = Scores(game))
           /\ event \in {"TIMEOUT", "BUTTON_PRESSED"}
                => (state' = "START" /\ Scores(game') = Scores(new_game))
           /\ event = "TAGS_CHANGED_ON_BOARD_1"
                => /\ state' = "PLAYING_BOARD_1"
                   /\ game'.team_a_game_score = 0 /\ game'.team_b_game_score = 0
                   /\ game'.turn_number = 1
           /\ event = "TAGS_CHANGED_ON_BOARD_2"
                => /\ state' = "PLAYING_BOARD_2"
                   /\ game'.team_a_game_score = 0 /\ game'.team_b_game_score = 0
                   /\ game'.turn_number = 1 ]_vars

(* The GameOver handler was entered on Timeout with a team at 21 or more,  *)
(* performed new_game and went to Start.                                   *)
C6_Witness ==
    /\ Handled
    /\ trace.previous_state = "GAME_OVER" /\ event = "TIMEOUT"
    /\ have_reached_winning_score(trace.entry)
    /\ trace.new_game /\ state = "START"
    /\ Scores(game) = Scores(new_game)

----------------------------------------------------------------------------
----------------------------------------------------------------------------
(* C8: in a get_event call made while the turn has lasted 4 seconds or     *)
(* less, the button callback is not consulted and neither ButtonPressed    *)
(* nor Quit is produced, even if a button is pressed and the button poll   *)
(* is due.                                                                 *)
C8_Debounce ==
    (pc = "dispatch" /\ game.turn_duration <= DebounceSeconds * TicksPerSecond)
    => /\ ~ polled.button_read
       /\ event \notin {"BUTTON_PRESSED", "QUIT"}

(* Such a call with the button poll due, a board button pressed and the    *)
(* quit signal set.                                                        *)
C8_Witness ==
    /\ pc = "dispatch"
    /\ game.turn_duration <= DebounceSeconds * TicksPerSecond
    /\ game.turn_duration > 0
    /\ polled.button_due
    /\ polled.button_state[1] /\ polled.button_state[3]
    /\ ~ polled.button_read
    /\ event = "NO_CHANGE"

----------------------------------------------------------------------------
----------------------------------------------------------------------------
(* C10 as stated: turn_number never decreases, and every change to it is   *)
(* an increment of exactly 1 made by end_turn.                             *)
C10_TurnNumberOnlyGrows ==
    [][ \/ game'.turn_number = game.turn_number
        \/ /\ game'.turn_number = game.turn_number + 1
           /\ trace'.end_turn ]_vars

(* C10 as amended: turn_number never decreases except when new_game resets *)
(* it to 1, and every other change to it is an increment of exactly 1 made *)
(* by end_turn.                                                            *)
C10_TurnNumberGrowsWithinGame ==
    [][ \/ game'.turn_number = game.turn_number
        \/ /\ game'.turn_number = game.turn_number + 1
           /\ trace'.end_turn
        \/ /\ trace'.new_game
           /\ game'.turn_number = 1 ]_vars

(* new_game has reset a turn_number above 1, after end_turn had raised it. *)
C10_Witness ==
    /\ Handled
    /\ trace.new_game
    /\ trace.entry.turn_number > 1
    /\ game.turn_number = 1

(* end_turn has raised turn_number by one. *)
EndTurnRaisedTurnNumber ==
    ~ (Handled /\ trace.end_turn /\ game.turn_number = trace.entry.turn_number + 1)

----------------------------------------------------------------------------
(* Helpers of the update_turn_score properties *)

(* The score fields update_turn_score left, when the handler that has just *)
(* run called it: the fields end_turn was then called on, or else the      *)
(* fields the handler left.                                                *)
after_update == IF trace.end_turn THEN trace.at_end_turn ELSE game

(* The tally of board n for a team on the cached readings. *)
tally_turn_board(n, team) ==
    IF n = 1 THEN tally_turn_board_1(sensors, minimum_sensor_weight, team)
    ELSE tally_turn_board_2(sensors, minimum_sensor_weight, team)

----------------------------------------------------------------------------
(* C11 as stated: within a turn (a call made by a PlayingBoardN handler),  *)
(* a call of update_turn_score does not decrease total_score(A) nor        *)
(* total_score(B).                                                         *)
C11_UpdateNeverLowersTotal ==
    (/\ Handled
     /\ trace.update_turn_score # 0
     /\ trace.previous_state \in Playing)
    => \A team \in {"A", "B"} :
          total_score(after_update, team) >= total_score(trace.at_update, team)

(* C11 as amended: a call of update_turn_score(n) leaves both game scores  *)
(* as they were and sets the turn scores to the board-n tallies (a, b) of  *)
(* the cached readings, so that afterwards total_score(A) is A's game      *)
(* score plus max(0, a-b) and total_score(B) is B's game score plus        *)
(* max(0, b-a): never below the team's game score, but below the total of  *)
(* before the call when the tallies have dropped.                          *)
C11_UpdateFollowsTally ==
    (Handled /\ trace.update_turn_score # 0) =>
        LET before == trace.at_update
            a == tally_turn_board(trace.update_turn_score, "A")
            b == tally_turn_board(trace.update_turn_score, "B")
        IN  /\ after_update.team_a_game_score = before.team_a_game_score
            /\ after_update.team_b_game_score = before.team_b_game_score
            /\ after_update.team_a_turn_score = a
            /\ after_update.team_b_turn_score = b
            /\ total_score(after_update, "A")
                  = before.team_a_game_score + Max2(0, a - b)
            /\ total_score(after_update, "B")
                  = before.team_b_game_score + Max2(0, b - a)
            /\ total_score(after_update, "A") >= before.team_a_game_score
            /\ total_score(after_update, "B") >= before.team_b_game_score

(* A PlayingBoard1 handler has called update_turn_score(1) on a tag change *)
(* and team A's total is lower than before the call.                       *)
C11_Witness ==
    /\ Handled
    /\ trace.previous_state = "PLAYING_BOARD_1"
    /\ trace.update_turn_score = 1
    /\ ~ trace.end_turn
    /\ total_score(after_update, "A") < total_score(trace.at_update, "A")
    /\ total_score(after_update, "A") >= trace.at_update.team_a_game_score

(* A call of update_turn_score(2) has raised team A's total. *)
UpdateRaisedTotal ==
    ~ (/\ Handled /\ trace.update_turn_score = 2
       /\ total_score(after_update, "A") > total_score(trace.at_update, "A"))

----------------------------------------------------------------------------
(* Helpers of the frame properties *)

GameScores(g) == <<g.team_a_game_score, g.team_b_game_score>>

TurnScores(g) == <<g.team_a_turn_score, g.team_b_turn_score>>

----------------------------------------------------------------------------
(* C12 as stated: only end_turn can change a game score; in every step of  *)
(* the game loop that does not perform end_turn (get_event, and every      *)
(* handler path that does not call end_turn) both game scores are          *)
(* unchanged.                                                              *)
C12_OnlyEndTurnChangesGameScore ==
    [][ ~ trace'.end_turn => GameScores(game') = GameScores(game) ]_vars

(* C12 as amended: only end_turn and new_game can change a game score; in  *)
(* every step of the game loop that performs neither (get_event, and every *)
(* handler path that calls neither, update_turn_score included) both game  *)
(* scores are unchanged; a step that performs new_game leaves both game    *)
(* scores 0, and a step that performs end_turn lowers neither.             *)
C12_OnlyEndTurnAndNewGameChangeGameScore ==
    [][ /\ (~ trace'.end_turn /\ ~ trace'.new_game)
              => GameScores(game') = GameScores(game)
        /\ trace'.new_game => GameScores(game') = <<0, 0>>
        /\ trace'.end_turn
              => /\ game'.team_a_game_score >= game.team_a_game_score
                 /\ game'.team_b_game_score >= game.team_b_game_score ]_vars

(* The GameOver handler has performed new_game on a Timeout and a positive *)
(* game score is back to 0.                                                *)
C12_Witness ==
    /\ Handled
    /\ trace.previous_state = "GAME_OVER" /\ event = "TIMEOUT"
    /\ trace.new_game /\ ~ trace.end_turn
    /\ trace.entry.team_b_game_score > 0
    /\ GameScores(game) = <<0, 0>>

(* A handler path that calls update_turn_score but not end_turn has run    *)
(* with a positive game score, which it left alone.                        *)
UpdateKeptGameScore ==
    ~ (/\ Handled /\ trace.update_turn_score # 0
       /\ ~ trace.end_turn /\ ~ trace.new_game
       /\ trace.entry.team_a_game_score > 0
       /\ GameScores(game) = GameScores(trace.entry))

TagEvents == {"TAGS_CHANGED_ON_BOARD_1", "TAGS_CHANGED_ON_BOARD_2"}

----------------------------------------------------------------------------
(* C13: get_event never changes the game scores, the turn scores,          *)
(* turn_number or the current GameState; on the Game it changes only the   *)
(* time of the last button read, the time of the last sensor read and,     *)
(* only in calls that return TagsChangedOnBoard1 or TagsChangedOnBoard2,   *)
(* last_board_played.  (The time of the turn start and the sensor weight   *)
(* threshold are fields of the Game too, and are left alone; the times of  *)
(* the last reads change only by being set to now, in a call that reads    *)
(* the buttons or the sensors.)                                            *)
C13_GetEventFrame ==
    [][ pc = "get_event" =>
          /\ state' = state
          /\ GameScores(game') = GameScores(game)
          /\ TurnScores(game') = TurnScores(game)
          /\ game'.turn_number = game.turn_number
          /\ game' = [game EXCEPT !.last_board_played = game'.last_board_played]
          /\ minimum_sensor_weight' = minimum_sensor_weight
          /\ (game'.last_board_played # game.last_board_played
                 => event' \in TagEvents)
          /\ button_age' = (IF polled'.button_read THEN 0 ELSE button_age)
          /\ sensor_age' = (IF polled'.sensors_read THEN 0 ELSE sensor_age) ]_vars

(* get_event has returned TagsChangedOnBoard2 in PlayingBoard1, where only *)
(* get_event can have set last_board_played to 2, with the turn scores,    *)
(* a game score and turn_number away from their initial values.            *)
C13_Witness ==
    /\ pc = "dispatch"
    /\ state = "PLAYING_BOARD_1"
    /\ event = "TAGS_CHANGED_ON_BOARD_2"
    /\ polled.sensors_read
    /\ game.last_board_played = 2
    /\ game.team_a_turn_score + game.team_b_turn_score > 0
    /\ game.team_a_game_score + game.team_b_game_score > 0
    /\ game.turn_number > 1

----------------------------------------------------------------------------
(* C14: from Start, a TagsChangedOnBoardN event (N = 1 or 2) moves the     *)
(* machine to PlayingBoardN with turn_number = 1, team A's and team B's    *)
(* turn scores equal to their board-N tallies of the cached sensor         *)
(* readings, last_board_played = N and both game scores unchanged.         *)
C14_StartToPlaying ==
    [][ \A n \in {1, 2} :
          (/\ pc = "dispatch" /\ state = "START"
           /\ event = (IF n = 1 THEN "TAGS_CHANGED_ON_BOARD_1"
                                ELSE "TAGS_CHANGED_ON_BOARD_2"))
          => /\ state' = (IF n = 1 THEN "PLAYING_BOARD_1" ELSE "PLAYING_BOARD_2")
             /\ game'.turn_number = 1
             /\ game'.team_a_turn_score = tally_turn_board(n, "A")
             /\ game'.team_b_turn_score = tally_turn_board(n, "B")
             /\ game'.last_board_played = n
             /\ GameScores(game') = GameScores(game) ]_vars

(* Start has been left on TagsChangedOnBoard1 with Top1 reading A2, A3,    *)
(* B1, B2 and Hole1 reading A1; the turn scores are A = 5, B = 2.          *)
C14_Witness ==
    /\ Handled
    /\ trace.previous_state = "START" /\ event = "TAGS_CHANGED_ON_BOARD_1"
    /\ sensors[1].latest_reading = <<"A2", "A3", "B1", "B2">>
    /\ sensors[2].latest_reading = <<"A1">>
    /\ state = "PLAYING_BOARD_1"
    /\ TurnScores(game) = <<5, 2>>
    /\ game.turn_number = 1 /\ game.last_board_played = 1
    /\ GameScores(game) = <<0, 0>>

(* Start has been left for PlayingBoard2 with the board-2 tallies (12, 0). *)
StartToPlayingBoard2 ==
    ~ (/\ Handled
       /\ trace.previous_state = "START" /\ state = "PLAYING_BOARD_2"
       /\ TurnScores(game) = <<12, 0>> /\ game.last_board_played = 2)

----------------------------------------------------------------------------
(* C15: in PlayingBoard1 a TagsChangedOnBoard2 event, and in PlayingBoard2 *)
(* a TagsChangedOnBoard1 event, with no team at 21, leaves the state, both *)
(* game scores, both turn scores and turn_number unchanged (the handler    *)
(* has no failing path: it returns the state it was called in).            *)
C15_OtherBoardIsNoOp ==
    [][ (/\ pc = "dispatch"
         /\ \/ state = "PLAYING_BOARD_1" /\ event = "TAGS_CHANGED_ON_BOARD_2"
            \/ state = "PLAYING_BOARD_2" /\ event = "TAGS_CHANGED_ON_BOARD_1"
         /\ ~ Reached21(game))
        => /\ state' = state
           /\ Scores(game') = Scores(game)
           /\ pc' = "get_event" ]_vars

(* PlayingBoard2 has ignored a TagsChangedOnBoard1 event raised by a tag   *)
(* read on board 1, with turn scores that differ from the board-1 tally.   *)
C15_Witness ==
    /\ Handled
    /\ trace.previous_state = "PLAYING_BOARD_2"
    /\ event = "TAGS_CHANGED_ON_BOARD_1"
    /\ ~ Reached21(trace.entry)
    /\ tally_turn_board(1, "A") + tally_turn_board(1, "B") > 0
    /\ TurnScores(game) # <<tally_turn_board(1, "A"), tally_turn_board(1, "B")>>
    /\ state = "PLAYING_BOARD_2"
    /\ Scores(game) = Scores(trace.entry)

(* PlayingBoard1 has ignored a TagsChangedOnBoard2 event. *)
Board1IgnoredBoard2 ==
    ~ (/\ Handled
       /\ trace.previous_state = "PLAYING_BOARD_1"
       /\ event = "TAGS_CHANGED_ON_BOARD_2"
       /\ ~ Reached21(trace.entry)
       /\ state = "PLAYING_BOARD_1"
       /\ Scores(game) = Scores(trace.entry))

----------------------------------------------------------------------------
(* C16: get_event returns Quit only in a call that reads the buttons (turn *)
(* longer than 4 seconds and button poll due) and finds the quit signal    *)
(* set with neither board flag set; a board flag together with the quit    *)
(* signal gives ButtonPressed; the play loop still dispatches the Quit     *)
(* event to the current state's handler, then terminates, and it never     *)
(* terminates after any other event.                                       *)
QuitOnlyFromButtons ==
    (pc = "dispatch" /\ event = "QUIT")
    => /\ game.turn_duration > DebounceSeconds * TicksPerSecond
       /\ polled.button_due
       /\ polled.button_read
       /\ polled.button_state[3]
       /\ ~ polled.button_state[1] /\ ~ polled.button_state[2]

BoardFlagBeatsQuit ==
    (/\ pc = "dispatch" /\ polled.button_read
     /\ polled.button_state[3]
     /\ (polled.button_state[1] \/ polled.button_state[2]))
    => event = "BUTTON_PRESSED"

EndedOnQuit ==
    pc = "done" => (event = "QUIT" /\ trace # NoTrace)

C16_Quit ==
    /\ [](QuitOnlyFromButtons /\ BoardFlagBeatsQuit /\ EndedOnQuit)
    /\ [][ pc = "dispatch" =>
             /\ trace'.previous_state = state
             /\ state' = state_machine(state, game, event, sensors,
                                       minimum_sensor_weight).state
             /\ pc' = (IF event = "QUIT" THEN "done" ELSE "get_event") ]_vars

(* The loop has ended after the PlayingBoard1 handler was given the Quit   *)
(* event, which it ignored.                                                *)
C16_Witness ==
    /\ pc = "done"
    /\ event = "QUIT"
    /\ trace.previous_state = "PLAYING_BOARD_1" /\ state = "PLAYING_BOARD_1"
    /\ trace.logged
    /\ Scores(game) = Scores(trace.entry)

(* The quit signal came together with a board flag and the call returned   *)
(* ButtonPressed.                                                          *)
QuitWithBoardFlag ==
    ~ (/\ pc = "dispatch" /\ polled.button_read
       /\ polled.button_state[3] /\ polled.button_state[1]
       /\ event = "BUTTON_PRESSED")

(* The handler given the Quit event changed the state: a team had reached  *)
(* 21 in PlayingBoard2.                                                    *)
QuitHandledAt21 ==
    ~ (/\ pc = "done"
       /\ trace.previous_state = "PLAYING_BOARD_2" /\ state = "GAME_OVER")

----------------------------------------------------------------------------
(* C17: in every iteration of the play loop the log callback is invoked    *)
(* exactly once, with the event, the previous state and the next state,    *)
(* except in iterations where the previous state is Start, the next state  *)
(* is Start and the event is NoChange, in which it is not invoked at all.  *)
C17_LogOncePerIteration ==
    Handled =>
        IF trace.previous_state = "START" /\ state = "START"
           /\ event = "NO_CHANGE"
        THEN trace.log = <<>>
        ELSE /\ Len(trace.log) = 1
             /\ trace.log[1].event = event
             /\ trace.log[1].previous_state = trace.previous_state
             /\ trace.log[1].next_state = state

(* An iteration that stayed in PlayingBoard1 on NoChange has logged once. *)
C17_Witness ==
    /\ Handled
    /\ trace.previous_state = "PLAYING_BOARD_1" /\ state = "PLAYING_BOARD_1"
    /\ event = "NO_CHANGE"
    /\ trace.log = << [event |-> "NO_CHANGE",
                       previous_state |-> "PLAYING_BOARD_1",
                       next_state |-> "PLAYING_BOARD_1"] >>

(* An iteration that stayed in Start on NoChange has not logged. *)
IdleStartNotLogged ==
    ~ (/\ Handled
       /\ trace.previous_state = "START" /\ state = "START"
       /\ event = "NO_CHANGE" /\ trace.log = <<>>)

(* An iteration that stayed in Start on Timeout has logged once. *)
StartTimeoutLogged ==
    ~ (/\ Handled
       /\ trace.previous_state = "START" /\ state = "START"
       /\ event = "TIMEOUT" /\ Len(trace.log) = 1)

----------------------------------------------------------------------------
(* C18: in a get_event call that polls the sensors without a button event, *)
(* if every board tally is 0 while the stored turn scores sum to more than *)
(* 0, the event is TagsChangedOnBoard1 when last_board_played is 1 and     *)
(* TagsChangedOnBoard2 otherwise, and last_board_played is left unchanged; *)
(* if board 1 has a positive tally that differs from the stored turn       *)
(* scores the event is TagsChangedOnBoard1 with last_board_played set to   *)
(* 1; and board 2 is considered only when board 1's tally is 0.            *)
C18_TagEventSelection ==
    [][ (pc = "get_event" /\ polled'.sensors_read) =>
          \E t \in {board_tallies(sensors', minimum_sensor_weight)} :
            /\ (/\ t.a1 + t.b1 = 0 /\ t.a2 + t.b2 = 0
                /\ game.team_a_turn_score + game.team_b_turn_score > 0)
               => /\ event' = (IF game.last_board_played = 1
                               THEN "TAGS_CHANGED_ON_BOARD_1"
                               ELSE "TAGS_CHANGED_ON_BOARD_2")
                  /\ game'.last_board_played = game.last_board_played
            /\ (/\ t.a1 + t.b1 > 0
                /\ <<t.a1, t.b1>> # TurnScores(game))
               => /\ event' = "TAGS_CHANGED_ON_BOARD_1"
                  /\ game'.last_board_played = 1
            /\ t.a1 + t.b1 > 0
               => /\ event' # "TAGS_CHANGED_ON_BOARD_2"
                  /\ game'.last_board_played # 2
                       \/ game'.last_board_played = game.last_board_played ]_vars

(* The sensors were polled in PlayingBoard2 and read nothing on either     *)
(* board while the stored turn scores were positive: the event is          *)
(* TagsChangedOnBoard2, the board played last.                             *)
C18_Witness ==
    /\ pc = "dispatch"
    /\ polled.sensors_read
    /\ boards_read_empty(sensors, minimum_sensor_weight)
    /\ game.team_a_turn_score + game.team_b_turn_score > 0
    /\ state = "PLAYING_BOARD_2"
    /\ game.last_board_played = 2
    /\ event = "TAGS_CHANGED_ON_BOARD_2"

(* The same drop to zero with board 1 played last. *)
DropToZeroOnBoard1 ==
    ~ (/\ pc = "dispatch" /\ polled.sensors_read
       /\ boards_read_empty(sensors, minimum_sensor_weight)
       /\ game.team_a_turn_score + game.team_b_turn_score > 0
       /\ game.last_board_played = 1
       /\ event = "TAGS_CHANGED_ON_BOARD_1")

(* Board 1 read with a positive tally equal to the stored turn scores      *)
(* while board 2 read with a positive tally: no tag event.                 *)
Board2NotConsidered ==
    ~ (/\ pc = "dispatch" /\ polled.sensors_read
       /\ tally_turn_board(1, "A") + tally_turn_board(1, "B") > 0
       /\ tally_turn_board(2, "A") + tally_turn_board(2, "B") > 0
       /\ TurnScores(game) = <<tally_turn_board(1, "A"), tally_turn_board(1, "B")>>
       /\ event = "NO_CHANGE")

(* Board 1 read with a positive tally that differs from the stored,        *)
(* positive turn scores of a turn on board 2.                              *)
Board1ChangedDuringBoard2 ==
    ~ (/\ pc = "dispatch" /\ polled.sensors_read
       /\ state = "PLAYING_BOARD_2"
       /\ game.team_a_turn_score + game.team_b_turn_score > 0
       /\ tally_turn_board(1, "A") + tally_turn_board(1, "B") > 0
       /\ event = "TAGS_CHANGED_ON_BOARD_1" /\ game.last_board_played = 1)

----------------------------------------------------------------------------
NoChangeBelowTimeout ==
    ~ (/\ pc = "dispatch"
       /\ state = "PLAYING_BOARD_1"
       /\ polled.button_read /\ polled.button_state = <<FALSE, FALSE, FALSE>>
       /\ polled.sensors_read /\ ~ polled.tags_changed
       /\ game.turn_duration < TimeoutSeconds * TicksPerSecond
       /\ event = "NO_CHANGE")

(* A tag change was returned with the turn at the timeout interval. *)
TagChangeAtTimeout ==
    ~ (/\ pc = "dispatch"
       /\ game.turn_duration >= TimeoutSeconds * TicksPerSecond
       /\ event \in TagEvents)

----------------------------------------------------------------------------
TurnOverButtonBelow21 ==
    ~ (/\ Handled
       /\ trace.previous_state = "TURN_OVER" /\ event = "BUTTON_PRESSED"
       /\ ~ Reached21(trace.entry) /\ state = "GAME_OVER")

(* TurnOver was left for GameOver on Timeout below 21. *)
TurnOverTimeoutBelow21 ==
    ~ (/\ Handled
       /\ trace.previous_state = "TURN_OVER" /\ event = "TIMEOUT"
       /\ ~ Reached21(trace.entry) /\ state = "GAME_OVER")

(* The machine stayed in TurnOver on a tag change below 21. *)
TurnOverStays ==
    ~ (/\ Handled
       /\ trace.previous_state = "TURN_OVER" /\ event \in TagEvents
       /\ ~ Reached21(trace.entry) /\ state = "TURN_OVER")

----------------------------------------------------------------------------
(* C21: from GameOver, NoChange keeps GameOver with all scores unchanged;  *)
(* Timeout and ButtonPressed perform new_game (both game scores and both   *)
(* turn scores 0, last_board_played 0, turn_number 1) and move to Start;   *)
(* TagsChangedOnBoardN performs new_game and then update_turn_score(N) and *)
(* moves to PlayingBoardN with game scores 0, turn_number 1 and turn       *)
(* scores equal to the board-N tallies; new_game is performed from no      *)
(* state other than GameOver.                                              *)
C21_GameOverTable ==
    [][ /\ (pc = "dispatch" /\ state = "GAME_OVER") =>
              /\ event = "NO_CHANGE" =>
                    /\ state' = "GAME_OVER"
                    /\ Scores(game') = Scores(game)
                    /\ ~ trace'.new_game
              /\ event \in {"TIMEOUT", "BUTTON_PRESSED"} =>
                    /\ state' = "START"
                    /\ trace'.new_game
                    /\ GameScores(game') = <<0, 0>>
                    /\ TurnScores(game') = <<0, 0>>
                    /\ game'.last_board_played = 0
                    /\ game'.turn_number = 1
              /\ \A n \in {1, 2} :
                    event = (IF n = 1 THEN "TAGS_CHANGED_ON_BOARD_1"
                                      ELSE "TAGS_CHANGED_ON_BOARD_2") =>
                       /\ state' = (IF n = 1 THEN "PLAYING_BOARD_1"
                                             ELSE "PLAYING_BOARD_2")
                       /\ trace'.new_game
                       /\ trace'.update_turn_score = n
                       /\ GameScores(game') = <<0, 0>>
                       /\ game'.turn_number = 1
                       /\ TurnScores(game')
                            = <<tally_turn_board(n, "A"), tally_turn_board(n, "B")>>
        /\ trace'.new_game => (pc = "dispatch" /\ state = "GAME_OVER") ]_vars

(* GameOver, entered with a positive game score after the first turn, was  *)
(* left on TagsChangedOnBoard2 for PlayingBoard2 with the game scores 0    *)
(* and the turn scores at the board-2 tallies.                             *)
C21_Witness ==
    /\ Handled
    /\ trace.previous_state = "GAME_OVER" /\ event = "TAGS_CHANGED_ON_BOARD_2"
    /\ trace.new_game /\ trace.update_turn_score = 2
    /\ trace.entry.team_a_game_score + trace.entry.team_b_game_score > 0
    /\ trace.entry.turn_number > 1
    /\ state = "PLAYING_BOARD_2"
    /\ GameScores(game) = <<0, 0>> /\ game.turn_number = 1
    /\ TurnScores(game) = <<tally_turn_board(2, "A"), tally_turn_board(2, "B")>>
    /\ game.team_a_turn_score + game.team_b_turn_score > 0

(* GameOver was left for Start on ButtonPressed with a positive game score *)
(* given up.                                                               *)
GameOverButtonToStart ==
    ~ (/\ Handled
       /\ trace.previous_state = "GAME_OVER" /\ event = "BUTTON_PRESSED"
       /\ trace.entry.team_a_game_score > 0
       /\ state = "START" /\ Scores(game) = Scores(new_game)
       /\ game.last_board_played = 0)

(* GameOver was kept on NoChange with a positive game score. *)
GameOverKept ==
    ~ (/\ Handled
       /\ trace.previous_state = "GAME_OVER" /\ event = "NO_CHANGE"
       /\ game.team_b_game_score > 0
       /\ state = "GAME_OVER" /\ Scores(game) = Scores(trace.entry))

----------------------------------------------------------------------------
(* C22: in every reachable state of the game loop the two game scores and  *)
(* the two turn scores are integers >= 0, last_board_played is in          *)
(* {0, 1, 2}, turn_number is at least 1, and the current state is one of   *)
(* the six GameState values.                                               *)
C22_FieldRanges ==
    /\ game.team_a_game_score \in Nat
    /\ game.team_b_game_score \in Nat
    /\ game.team_a_turn_score \in Nat
    /\ game.team_b_turn_score \in Nat
    /\ game.last_board_played \in {0, 1, 2}
    /\ game.turn_number \in Nat /\ game.turn_number >= 1
    /\ state \in {"START", "PLAYING_BOARD_1", "PLAYING_BOARD_2",
                   "BOARD_CLEAR", "TURN_OVER", "GAME_OVER"}

(* A turn won by team B has been ended and a later turn is played on       *)
(* board 2: every field is away from its initial value.                    *)
C22_Witness ==
    /\ Handled
    /\ state = "PLAYING_BOARD_2"
    /\ game.team_b_game_score > 0
    /\ game.team_a_turn_score > 0 /\ game.team_b_turn_score > 0
    /\ game.last_board_played = 2
    /\ game.turn_number > 1

----------------------------------------------------------------------------
(* C23: at the start of every game-loop iteration, if the state is         *)
(* PlayingBoard1 then last_board_played is 1 and if the state is           *)
(* PlayingBoard2 then last_board_played is 2: get_event never leaves       *)
(* last_board_played at the board that is not being played.                *)
C23_LastBoardIsBoardPlayed ==
    pc = "get_event" =>
        /\ state = "PLAYING_BOARD_1" => game.last_board_played = 1
        /\ state = "PLAYING_BOARD_2" => game.last_board_played = 2

(* What does hold: last_board_played is the board being played whenever   *)
(* the handler that has just run entered or kept a Playing state through   *)
(* update_turn_score.                                                      *)
LastBoardIsBoardUpdated ==
    (Handled /\ trace.update_turn_score # 0 /\ ~ trace.end_turn) =>
        /\ game.last_board_played = trace.update_turn_score
        /\ state = (IF trace.update_turn_score = 1 THEN "PLAYING_BOARD_1"
                                                   ELSE "PLAYING_BOARD_2")

(* The consequence: in PlayingBoard1, after a tag change on board 2 was    *)
(* ignored, every board read empty and the drop of the turn score to zero  *)
(* was reported on board 2 and ignored as well; the stored turn scores     *)
(* stay positive.                                                          *)
DropIgnoredAfterOtherBoard ==
    ~ (/\ Handled
       /\ trace.previous_state = "PLAYING_BOARD_1" /\ state = "PLAYING_BOARD_1"
       /\ event = "TAGS_CHANGED_ON_BOARD_2"
       /\ boards_read_empty(sensors, minimum_sensor_weight)
       /\ game.team_a_turn_score + game.team_b_turn_score > 0)

----------------------------------------------------------------------------
(* C24: end_turn preserves both total scores: for every pair of game       *)
(* scores and turn scores, total_score(A) and total_score(B) immediately   *)
(* after end_turn equal their values immediately before it, and afterwards *)
(* each team's total_score equals its game score.                          *)
C24_EndTurnKeepsTotals ==
    pc = "ended" =>
        /\ total_score(game, "A") = total_score(trace.at_end_turn, "A")
        /\ total_score(game, "B") = total_score(trace.at_end_turn, "B")
        /\ total_score(game, "A") = game.team_a_game_score
        /\ total_score(game, "B") = game.team_b_game_score

(* end_turn was called with game scores (1, 2) and turn scores (1, 3):     *)
(* team B's total was 4 before and is 4 after.                             *)
C24_Witness ==
    /\ pc = "ended"
    /\ GameScores(trace.at_end_turn) = <<1, 2>>
    /\ TurnScores(trace.at_end_turn) = <<1, 3>>
    /\ total_score(trace.at_end_turn, "B") = 4
    /\ GameScores(game) = <<1, 4>>
    /\ TurnScores(game) = <<0, 0>>

(* The same in the game loop: every end_turn a handler performs keeps both *)
(* totals.                                                                 *)
EndTurnKeepsTotalsInPlay ==
    (Handled /\ trace.end_turn) =>
        /\ total_score(game, "A") = total_score(trace.at_end_turn, "A")
        /\ total_score(game, "B") = total_score(trace.at_end_turn, "B")
        /\ total_score(game, "A") = game.team_a_game_score
        /\ total_score(game, "B") = game.team_b_game_score

----------------------------------------------------------------------------
(* C25: at the start of every game-loop iteration, whenever the state is   *)
(* Start, TurnOver or BoardClear both turn scores are 0 (so each           *)
(* total_score equals the game score), and whenever the state is Start     *)
(* both game scores are also 0 and turn_number is 1.                       *)
C25_NoTurnScoreBetweenTurns ==
    pc = "get_event" =>
        /\ state \in {"START", "TURN_OVER", "BOARD_CLEAR"} =>
              /\ TurnScores(game) = <<0, 0>>
              /\ total_score(game, "A") = game.team_a_game_score
              /\ total_score(game, "B") = game.team_b_game_score
        /\ state = "START" =>
              /\ GameScores(game) = <<0, 0>>
              /\ game.turn_number = 1

(* An iteration starts in TurnOver, entered by an end_turn that credited   *)
(* positive turn scores, with tags still read on board 1.                  *)
C25_Witness ==
    /\ Handled /\ pc = "get_event"
    /\ state = "TURN_OVER"
    /\ trace.end_turn
    /\ trace.at_end_turn.team_a_turn_score > 0
    /\ trace.at_end_turn.team_b_turn_score > 0
    /\ ~ are_boards_clear(sensors, minimum_sensor_weight)
    /\ game.team_a_game_score > 0
    /\ TurnScores(game) = <<0, 0>>

(* An iteration starts in Start after a game that had a positive game      *)
(* score and a later turn number.                                          *)
StartAfterGame ==
    ~ (/\ Handled /\ pc = "get_event"
       /\ state = "START"
       /\ trace.new_game
       /\ trace.entry.team_a_game_score > 0 /\ trace.entry.turn_number > 1
       /\ Scores(game) = Scores(new_game))

(* An iteration starts in BoardClear with a positive game score. *)
BoardClearAfterTurn ==
    ~ (/\ Handled /\ pc = "get_event"
       /\ state = "BOARD_CLEAR" /\ trace.previous_state = "TURN_OVER"
       /\ game.team_b_game_score > 0
       /\ TurnScores(game) = <<0, 0>>)

(* An iteration stays in TurnOver on a tag change on board 1, with the     *)
(* turn scores still 0.                                                    *)
TurnOverIgnoresTags ==
    ~ (/\ Handled /\ pc = "get_event"
       /\ state = "TURN_OVER" /\ trace.previous_state = "TURN_OVER"
       /\ event = "TAGS_CHANGED_ON_BOARD_1"
       /\ TurnScores(game) = <<0, 0>>)

(***************************************************************************)
(* C26: once the machine is in GameOver, new_game is only performed on a   *)
(* button press, on a tag change, or on a Timeout that comes at least the  *)
(* timeout interval after GameOver was entered; in particular not on the   *)
(* pass right after the Timeout that moved TurnOver or BoardClear to       *)
(* GameOver.  The code does not restart the turn clock on entering         *)
(* GameOver (src/score.py:375-396), so get_event reports Timeout again on  *)
(* the next pass (src/score.py:286-291) and the GameOver handler resets    *)
(* the game (src/score.py:413-416): the property is violated.              *)
(***************************************************************************)
GameOverReset ==
    /\ Handled
    /\ trace.previous_state = "GAME_OVER"
    /\ trace.new_game

C26_GameOverKeptForTimeout ==
    GameOverReset =>
        \/ event \in {"BUTTON_PRESSED", "TAGS_CHANGED_ON_BOARD_1",
                      "TAGS_CHANGED_ON_BOARD_2"}
        \/ /\ event = "TIMEOUT"
           /\ trace.game_over.age >= timeout_in_seconds

(* The reset on the pass right after a Timeout ended the game. *)
ResetRightAfterTimeout(from) ==
    /\ GameOverReset
    /\ event = "TIMEOUT"
    /\ state = "START"
    /\ trace.game_over = [age |-> ShortSleep, timed_out_in |-> from]

ResetRightAfterBoardClearTimeout == ~ ResetRightAfterTimeout("BOARD_CLEAR")

ResetRightAfterTurnOverTimeout == ~ ResetRightAfterTimeout("TURN_OVER")

(* The final scores a game was won with are wiped the same way. *)
WonGameResetEarly ==
    ~ (/\ GameOverReset
       /\ event = "TIMEOUT"
       /\ trace.game_over.age < timeout_in_seconds
       /\ \/ trace.entry.team_a_game_score >= 21
          \/ trace.entry.team_b_game_score >= 21)

(* A Timeout a whole timeout interval after GameOver was entered resets too. *)
GameOverResetAfterTimeoutInterval ==
    ~ (/\ GameOverReset
       /\ event = "TIMEOUT"
       /\ trace.game_over.age >= timeout_in_seconds)


====
